---- MODULE Spec2Model ----
(***************************************************************************)
(* A model of the client-side state of the benchmarking dashboard:         *)
(*   - ModelProvider, the selected-models store mirrored to localStorage   *)
(*     (src/src/context/DatasetContext.tsx, second unit of the file);      *)
(*   - DatasetProvider, the dataset file and its stored path;              *)
(*   - UnifiedBenchmarkPage.handleEvaluate, the batch evaluation loop, and *)
(*     handleModelUpload (src/src/pages/SelfBenchmarkPage.tsx);            *)
(*   - ModelUploader (src/src/components/ModelUploader.tsx);               *)
(*   - the validators of dataset files of the upload flows;                *)
(* and of the server's handlers:                                           *)
(*   - the dataset and model upload handlers (src/unnamed/part_005,        *)
(*     src/src/pages/api/model/upload.ts);                                 *)
(*   - the chat handler (src/unnamed/part_004).                            *)
(* JavaScript values are written as tokens (strings): "true", "false",     *)
(* "undefined", "null", "" and opaque strings such as model names.         *)
(***************************************************************************)
EXTENDS Integers, Sequences, FiniteSets, TLC

(***************************************************************************)
(* Bounds of the model.                                                    *)
(***************************************************************************)
\* how many distinct model names the user works with
NumNames == 3

NameOf == <<"A", "B", "C", "D", "E", "F">>

ModelNames == {NameOf[i] : i \in 1..NumNames}

(***************************************************************************)
(* JavaScript values and objects.                                          *)
(***************************************************************************)
Undefined == "undefined"
JsNull == "null"
JsTrue == "true"
JsFalse == "false"
EmptyString == ""

\* JavaScript truthiness of a token: if (v) { ... }
Truthy(v) == v \notin {Undefined, JsNull, JsFalse, EmptyString}

\* An object is a function from its own property names to tokens.
MkObj(pairs) ==
    [k \in {p[1] : p \in pairs} |-> (CHOOSE p \in pairs : p[1] = k)[2]]

\* o.k : reading a property the object does not have gives undefined
Get(o, k) == IF k \in DOMAIN o THEN o[k] ELSE Undefined

BenchmarkResultFields == {"modelName", "modelId", "fromLibrary", "error"}

\* two objects no JavaScript property read can tell apart
SameObject(o1, o2) == \A k \in BenchmarkResultFields : Get(o1, k) = Get(o2, k)

SameList(l1, l2) ==
    /\ Len(l1) = Len(l2)
    /\ \A i \in 1..Len(l1) : SameObject(l1[i], l2[i])

(***************************************************************************)
(* The BenchmarkResult objects the pages hand to addModel.                 *)
(***************************************************************************)
\* UnifiedBenchmarkPage.handleModelUpload: newModel
UploadedModel(n) ==
    MkObj({<<"modelName", n>>, <<"modelId", "path:" \o n>>, <<"fromLibrary", JsFalse>>})

\* ModelLibraryPage: an entry of the mock library list (no modelId, no fromLibrary)
LibraryPageModel(n) == MkObj({<<"modelName", n>>})

\* a record of api.getModels() that UnifiedBenchmarkPage imports on mount
SavedLibraryModel(n) ==
    MkObj({<<"modelName", n>>, <<"modelId", "lib:" \o n>>, <<"fromLibrary", JsTrue>>})

Models ==
    {UploadedModel(n) : n \in ModelNames}
        \cup {LibraryPageModel(n) : n \in ModelNames}
        \cup {SavedLibraryModel(n) : n \in ModelNames}

(***************************************************************************)
(* JSON.stringify / JSON.parse of the selected-models array.  A JSON text  *)
(* is modelled by its kind and, for an array of objects, the members       *)
(* (name, value) each object is written with: JSON.stringify leaves out    *)
(* every property whose value is undefined.                                *)
(***************************************************************************)
NoItem == [kind |-> "null", items |-> <<>>]

CorruptText == [kind |-> "corrupt", items |-> <<>>]

JSONstringifyObject(o) == {<<k, o[k]>> : k \in {f \in DOMAIN o : o[f] # Undefined}}

JSONstringify(list) ==
    [kind |-> "array", items |-> [i \in 1..Len(list) |-> JSONstringifyObject(list[i])]]

\* JSON.parse throws a SyntaxError on a text that is not JSON
JSONparseThrows(text) == text.kind = "corrupt"

JSONparse(text) == [i \in 1..Len(text.items) |-> MkObj(text.items[i])]

\* if (savedModels): null and the empty string are falsy
TruthyItem(item) == item.kind # "null"

(***************************************************************************)
(* State.                                                                  *)
(***************************************************************************)
VARIABLES
    phase,              \* "mounting": rendered, effects not yet run; "running"; "crashed"
    selectedModels,     \* ModelProvider: useState<BenchmarkResult[]>([])
    localStorage,       \* the browser's localStorage: the two keys the providers use
    dataset,            \* DatasetProvider: useState<File | null>(null)
    datasetPath,        \* DatasetProvider: useState<string | null>(null)
    lastOp,             \* history: the last store operation and the state it started from
    addLog,             \* history: the names whose latest inserting addModel is in effect, in call order
    loading,            \* UnifiedBenchmarkPage: useState(false)
    error,              \* UnifiedBenchmarkPage: useState<string | null>(null)
    comparisonResults,  \* UnifiedBenchmarkPage: useState<BenchmarkResult[]>([])
    runs,               \* the handleEvaluate calls suspended at an await, per call
    lastRun,            \* history: the handleEvaluate call that finished last
    requests,           \* history: the evaluate requests the page has sent since it loaded
    uploader,           \* ModelUploader: the values of its useState hooks
    uploaderCalls,      \* ModelUploader: the handler calls suspended at their fetch
    uploaderLast,       \* history: the handler call that settled last and the state it found
    probe,              \* the file last handed to the dataset validators, and their verdicts
    clock,              \* the server: milliseconds Date.now() has advanced since it started
    disk,               \* the server: the files of the host, each with the request its bytes came from
    handlers,           \* the server: the upload handler call of each request
    chat,               \* the server: the chat handler call of the request to /api/chat
    uploadCall,         \* UnifiedBenchmarkPage: the handleModelUpload call suspended at api.uploadModel
    lastUpload,         \* history: the file of the last handleModelUpload call and its verdict
    inference,          \* the server: the inference handler call and the process it started
    datasetCall,        \* UnifiedBenchmarkPage: the handleDatasetUpload call suspended at its fetch
    successMessage,     \* UnifiedBenchmarkPage: useState<string | null>(null)
    selection,          \* ModelSelectionPage: its useState hooks and its handleModelUpload call
    llm                 \* LLMInteractionPage: its useState hooks and its calls suspended at a fetch

storeVars == <<selectedModels, localStorage, lastOp, addLog>>

datasetVars == <<dataset, datasetPath>>

pageVars == <<loading, error, comparisonResults, runs, lastRun, requests>>

appVars == <<phase, storeVars, datasetVars, pageVars>>

uploaderVars == <<uploader, uploaderCalls, uploaderLast>>

serverVars == <<clock, disk, handlers, chat>>

uploadVars == <<uploadCall, lastUpload>>

datasetPageVars == <<datasetCall, successMessage>>

laterVars == <<inference, datasetPageVars, selection, llm>>

otherVars == <<uploaderVars, probe, serverVars, uploadVars, laterVars>>

\* what the actions of one part of the system leave alone
notUploader == <<appVars, probe, serverVars, uploadVars, laterVars>>

notProbe == <<appVars, uploaderVars, serverVars, uploadVars, laterVars>>

notUploads == <<appVars, uploaderVars, probe, uploadVars, chat, laterVars>>

notChat == <<appVars, uploaderVars, probe, uploadVars, disk, handlers, laterVars>>

notPage == <<uploaderVars, probe, serverVars, laterVars>>

vars == <<appVars, otherVars>>

\* the handler calls of ModelUploader the model follows at once
CallIds == {"c1", "c2"}

NoCall == [kind |-> "none", arg |-> ""]

\* ModelUploader's useState initial values
InitialUploader ==
    [datasetFile |-> JsNull, modelFile |-> JsNull, modelPath |-> EmptyString,
     datasetPath |-> EmptyString, evaluationResults |-> JsNull, loading |-> FALSE,
     error |-> JsNull, selectedTarget |-> EmptyString, availableColumns |-> <<>>,
     datasetAnalysis |-> JsNull]

\* what a handler call found of the results of earlier calls
Obtained(u) ==
    [datasetPath |-> u.datasetPath, availableColumns |-> u.availableColumns,
     selectedTarget |-> u.selectedTarget, evaluationResults |-> u.evaluationResults]

NoSettled == [kind |-> "none", failed |-> FALSE, before |-> Obtained(InitialUploader)]

NoProbe == [probed |-> FALSE]

\* the upload requests the server receives
ReqIds == {"q1", "q2"}

NoUpload == [name |-> <<"">>, size |-> 0]

\* a JavaScript value of a request body: its type and its text
Value(type, text) == [type |-> type, text |-> text]

Absent == Value("undefined", "")

NoChat ==
    [pc |-> "idle", method |-> "", message |-> Absent, model |-> Absent, status |-> 0,
     body |-> MkObj({})]

NoUploadCall == [called |-> FALSE, file |-> NoUpload, verdict |-> "none"]

NoHandler ==
    [pc |-> "idle", kind |-> "none", file |-> NoUpload, staged |-> "", id |-> "",
     finalPath |-> "", status |-> 0, error |-> ""]

NoDatasetCall == [pc |-> "idle", file |-> JsNull]

\* ModelSelectionPage before any upload; last is how its last upload ended
NoSelection ==
    [loading |-> FALSE, error |-> JsNull, pc |-> "idle", file |-> NoUpload, last |-> "none"]

\* LLMInteractionPage's useState initial values; submits and upload are its
\* handler calls suspended at a fetch
InitialChatState ==
    [messages |-> <<>>, isLoading |-> FALSE, error |-> JsNull, selectedModel |-> "gpt-4",
     input |-> EmptyString, customModel |-> JsNull, submits |-> {}, upload |-> "idle"]

\* the process the inference handler has started, if any
NoProcess ==
    [state |-> "none", script |-> "", modelPath |-> "", input |-> "", code |-> "",
     stdout |-> "", stderr |-> ""]

NoInference ==
    [pc |-> "idle", method |-> "", modelId |-> Absent, input |-> Absent, spawned |-> 0,
     responses |-> 0, status |-> 0, body |-> [kind |-> "none", text |-> ""],
     python |-> NoProcess]

\* the components outside a specification's scope are not mounted
InitBesidesDisk ==
    /\ uploader = InitialUploader
    /\ uploaderCalls = [c \in CallIds |-> NoCall]
    /\ uploaderLast = NoSettled
    /\ probe = NoProbe
    /\ clock = 0
    /\ handlers = [q \in ReqIds |-> NoHandler]
    /\ chat = NoChat
    /\ uploadCall = NoUploadCall
    /\ lastUpload = NoUploadCall
    /\ inference = NoInference
    /\ datasetCall = NoDatasetCall
    /\ successMessage = JsNull
    /\ selection = NoSelection
    /\ llm = InitialChatState

InitOther ==
    /\ disk = {}
    /\ InitBesidesDisk

NoModel == MkObj({})

NoOp ==
    [op |-> "none", name |-> "", model |-> NoModel, before |-> <<>>, storedBefore |-> NoItem]

Op(o, n, m) ==
    [op |-> o, name |-> n, model |-> m, before |-> selectedModels,
     storedBefore |-> localStorage.selectedModels]

NamesOf(list) == [i \in 1..Len(list) |-> Get(list[i], "modelName")]

Range(seq) == {seq[i] : i \in 1..Len(seq)}

Without(seq, x) == SelectSeq(seq, LAMBDA y : y # x)

(***************************************************************************)
(* ModelProvider.                                                          *)
(***************************************************************************)
\* prev.some(m => m.modelName === model.modelName)
SomeNamed(prev, name) == \E i \in 1..Len(prev) : Get(prev[i], "modelName") = name

\* prev.findIndex(m => m.modelName === modelName); 0 stands for -1
FindIndex(prev, name) ==
    IF SomeNamed(prev, name)
    THEN CHOOSE i \in 1..Len(prev) :
            /\ Get(prev[i], "modelName") = name
            /\ \A j \in 1..(i - 1) : Get(prev[j], "modelName") # name
    ELSE 0

\* [...prev.slice(0, index), ...prev.slice(index + 1)]
SpliceOut(prev, index) == SubSeq(prev, 1, index - 1) \o SubSeq(prev, index + 1, Len(prev))

\* variants of the updaters with a slip in them, used to test the properties below
AddModelLastWriteWins(prev, item, model) ==
    LET name == Get(model, "modelName")
        newModels == IF SomeNamed(prev, name)
                     THEN [i \in 1..Len(prev) |->
                             IF Get(prev[i], "modelName") = name THEN model ELSE prev[i]]
                     ELSE Append(prev, model)
    IN  [models |-> newModels, item |-> JSONstringify(newModels)]

AddModelNoDedup(prev, item, model) ==
    LET newModels == Append(prev, model)
    IN  [models |-> newModels, item |-> JSONstringify(newModels)]

AddModelPrepend(prev, item, model) ==
    IF SomeNamed(prev, Get(model, "modelName"))
    THEN [models |-> prev, item |-> item]
    ELSE LET newModels == <<model>> \o prev
         IN  [models |-> newModels, item |-> JSONstringify(newModels)]

RemoveModelAlwaysWrites(prev, item, modelName) ==
    LET newModels == SelectSeq(prev, LAMBDA m : Get(m, "modelName") # modelName)
    IN  [models |-> newModels, item |-> JSONstringify(newModels)]

ClearModelsKeepsItem(prev, item) == [models |-> <<>>, item |-> item]

\* the state updater of addModel: the new state and the new value of the storage key
AddModelUpdater(prev, item, model) ==
    IF SomeNamed(prev, Get(model, "modelName"))
    THEN [models |-> prev, item |-> item]
    ELSE LET newModels == Append(prev, model)
         IN  [models |-> newModels, item |-> JSONstringify(newModels)]

\* the state updater of removeModel
RemoveModelUpdater(prev, item, modelName) ==
    LET index == FindIndex(prev, modelName)
    IN  IF index = 0
        THEN [models |-> prev, item |-> item]
        ELSE LET newModels == SpliceOut(prev, index)
             IN  [models |-> newModels, item |-> JSONstringify(newModels)]

\* clearModels: setSelectedModels([]); localStorage.removeItem('selectedModels')
ClearModelsUpdater(prev, item) == [models |-> <<>>, item |-> NoItem]

AddModel(model) ==
    /\ phase = "running"
    /\ LET r == AddModelUpdater(selectedModels, localStorage.selectedModels, model)
       IN  /\ selectedModels' = r.models
           /\ localStorage' = [localStorage EXCEPT !.selectedModels = r.item]
    /\ lastOp' = Op("addModel", Get(model, "modelName"), model)
    /\ addLog' = IF Get(model, "modelName") \in Range(addLog)
                 THEN addLog
                 ELSE Append(addLog, Get(model, "modelName"))
    /\ UNCHANGED <<phase, datasetVars, pageVars>>
    /\ UNCHANGED otherVars

RemoveModel(modelName) ==
    /\ phase = "running"
    /\ LET r == RemoveModelUpdater(selectedModels, localStorage.selectedModels, modelName)
       IN  /\ selectedModels' = r.models
           /\ localStorage' = [localStorage EXCEPT !.selectedModels = r.item]
    /\ lastOp' = Op("removeModel", modelName, NoModel)
    /\ addLog' = Without(addLog, modelName)
    /\ UNCHANGED <<phase, datasetVars, pageVars>>
    /\ UNCHANGED otherVars

ClearModels ==
    /\ phase = "running"
    /\ LET r == ClearModelsUpdater(selectedModels, localStorage.selectedModels)
       IN  /\ selectedModels' = r.models
           /\ localStorage' = [localStorage EXCEPT !.selectedModels = r.item]
    /\ lastOp' = Op("clearModels", "", NoModel)
    /\ addLog' = <<>>
    /\ UNCHANGED <<phase, datasetVars, pageVars>>
    /\ UNCHANGED otherVars

(***************************************************************************)
(* Page load.  A reload throws the in-memory state away; the providers     *)
(* render with their initial state and then run their load effects.        *)
(***************************************************************************)
RunIds == {"r1", "r2"}

IdleRun ==
    [pc |-> "idle", models |-> <<>>, dataset |-> JsNull, datasetPath |-> JsNull,
     i |-> 0, results |-> <<>>, fates |-> <<>>, sent |-> 0]

NoRun ==
    [done |-> FALSE, models |-> <<>>, dataset |-> JsNull, datasetPath |-> JsNull,
     results |-> <<>>, fates |-> <<>>]

LoadModelsNoRehydrate(item) == [threw |-> FALSE, models |-> <<>>]

\* ModelProvider's load effect: the state it leaves, or a throw out of the effect
LoadModels(item) ==
    IF TruthyItem(item)
    THEN IF JSONparseThrows(item)
         THEN [threw |-> TRUE, models |-> <<>>]
         ELSE [threw |-> FALSE, models |-> JSONparse(item)]
    ELSE [threw |-> FALSE, models |-> <<>>]

\* DatasetProvider's load effect
LoadDatasetPath(saved) == IF Truthy(saved) THEN saved ELSE JsNull

\* the effects of the first render; an error thrown by an effect with no error
\* boundary above it makes React unmount the whole tree
Mount ==
    /\ phase = "mounting"
    /\ LET r == LoadModels(localStorage.selectedModels)
       IN  /\ phase' = IF r.threw THEN "crashed" ELSE "running"
           /\ selectedModels' = r.models
    /\ datasetPath' = LoadDatasetPath(localStorage.datasetPath)
    /\ UNCHANGED <<localStorage, lastOp, addLog, dataset, pageVars>>
    /\ UNCHANGED otherVars

Reload ==
    /\ phase \in {"running", "crashed"}
    /\ phase' = "mounting"
    /\ selectedModels' = <<>>
    /\ dataset' = JsNull
    /\ datasetPath' = JsNull
    /\ loading' = FALSE
    /\ error' = JsNull
    /\ comparisonResults' = <<>>
    /\ runs' = [r \in RunIds |-> IdleRun]
    /\ lastRun' = NoRun
    /\ requests' = {}
    /\ lastOp' = Op("reload", "", NoModel)
    /\ datasetCall' = NoDatasetCall
    /\ successMessage' = JsNull
    /\ UNCHANGED <<localStorage, addLog>>
    /\ UNCHANGED <<uploaderVars, probe, serverVars, uploadVars, inference, selection, llm>>

(***************************************************************************)
(* Spec: the selected-models store, from a first visit (nothing stored).   *)
(***************************************************************************)
InitMemory ==
    /\ phase = "mounting"
    /\ selectedModels = <<>>
    /\ dataset = JsNull
    /\ datasetPath = JsNull
    /\ loading = FALSE
    /\ error = JsNull
    /\ comparisonResults = <<>>
    /\ runs = [r \in RunIds |-> IdleRun]
    /\ lastRun = NoRun
    /\ requests = {}
    /\ lastOp = NoOp
    /\ addLog = <<>>
    /\ InitOther

Init ==
    /\ InitMemory
    /\ localStorage = [selectedModels |-> NoItem, datasetPath |-> JsNull]

StoreNext ==
    \/ Mount
    \/ Reload
    \/ \E model \in Models : AddModel(model)
    \/ \E modelName \in ModelNames : RemoveModel(modelName)
    \/ ClearModels

Spec == Init /\ [][StoreNext]_vars

(***************************************************************************)
(* UnifiedBenchmarkPage.handleEvaluate.  Metrics are integers: ratios in   *)
(* thousandths, the other metrics in their own unit.  Math.random() is a   *)
(* draw in thousandths, 0..999.                                            *)
(***************************************************************************)
ZeroMetrics ==
    [accuracy |-> 0, f1Score |-> 0, precision |-> 0, recall |-> 0,
     latency |-> 0, throughput |-> 0, memoryUsage |-> 0, modelSize |-> 0]

\* the eight Math.random() values one library model consumes
RandomDraws ==
    {[accuracy |-> d, f1Score |-> d, precision |-> d, recall |-> d,
      latency |-> d, throughput |-> d, memoryUsage |-> d, modelSize |-> d] : d \in {0, 999}}

\* modelMetrics of the library branch
SimulatedMetrics(draw) ==
    [accuracy |-> (draw.accuracy * 300) \div 1000 + 700,
     f1Score |-> (draw.f1Score * 300) \div 1000 + 700,
     precision |-> (draw.precision * 300) \div 1000 + 700,
     recall |-> (draw.recall * 300) \div 1000 + 700,
     latency |-> (draw.latency * 100) \div 1000 + 50,
     throughput |-> (draw.throughput * 1000) \div 1000 + 500,
     memoryUsage |-> (draw.memoryUsage * 1000) \div 1000 + 500,
     modelSize |-> (draw.modelSize * 100) \div 1000 + 50]

\* EvaluationMetrics, as the evaluation service answers them
NoServerMetrics == [accuracy |-> 0, precision |-> 0, recall |-> 0, f1_score |-> 0]

ServerMetrics ==
    {NoServerMetrics, [accuracy |-> 930, precision |-> 910, recall |-> 880, f1_score |-> 894]}

\* how the promise of api.evaluateModel settles: it rejects (fetch or
\* response.json() fails), or it resolves with a body with or without metrics
EvalOutcomes ==
    {[kind |-> "rejected", message |-> "Failed to fetch", metrics |-> NoServerMetrics],
     [kind |-> "noMetrics", message |-> "", metrics |-> NoServerMetrics]}
        \cup {[kind |-> "metrics", message |-> "", metrics |-> m] : m \in ServerMetrics}

NoDatasetMessage == "Please upload a dataset before evaluating custom models"

\* the message of the Error the inner catch throws again
EvalErrorMessage(model, outcome) ==
    "Failed to evaluate " \o Get(model, "modelName") \o ": "
        \o (IF outcome.kind = "rejected"
            THEN outcome.message
            ELSE "Evaluation failed to return metrics")

\* benchmarkResult of the try block
SuccessResult(model, modelMetrics) ==
    [modelName |-> Get(model, "modelName"),
     modelId |-> Get(model, "modelId"),
     metrics |-> modelMetrics,
     fromLibrary |-> Get(model, "fromLibrary")]

ErrorResultStaleSize(model, message) ==
    [modelName |-> Get(model, "modelName"),
     modelId |-> Get(model, "modelId"),
     metrics |-> [ZeroMetrics EXCEPT !.modelSize = 1],
     fromLibrary |-> Get(model, "fromLibrary"),
     error |-> "Failed to evaluate model: " \o message]

\* the object the per-model catch pushes
ErrorResult(model, message) ==
    [modelName |-> Get(model, "modelName"),
     modelId |-> Get(model, "modelId"),
     metrics |-> ZeroMetrics,
     fromLibrary |-> Get(model, "fromLibrary"),
     error |-> "Failed to evaluate model: " \o message]

PushSettledDropsFailures(results, model, outcome) ==
    IF outcome.kind = "metrics"
    THEN Append(results, SuccessResult(model, outcome.metrics))
    ELSE results

\* results after the iteration of a custom model whose request has settled
PushSettled(results, model, outcome) ==
    IF outcome.kind = "metrics"
    THEN Append(results, SuccessResult(model, outcome.metrics))
    ELSE Append(results, ErrorResult(model, EvalErrorMessage(model, outcome)))

\* a variant of the guard of the custom branch that lets every call through
DatasetMissingNever(file, path) == FALSE

\* if (!dataset || !datasetPath) throw new Error('Please upload a dataset ...')
DatasetMissing(file, path) == ~Truthy(file) \/ ~Truthy(path)

\* api.evaluateModel(modelPath, datasetPath): the body of the POST to /evaluate
EvaluateBody(modelPath, path) ==
    JSONstringifyObject(MkObj({<<"model_path", modelPath>>, <<"dataset_path", path>>}))

\* the request a call suspended at model st.i has sent; dataset is the File
\* the call held when it sent it, index the position of the model in the
\* call's list, sent and settled the numbers of requests the call had sent
\* and of results it had pushed before
EvaluateRequest(st) ==
    [modelName |-> Get(st.models[st.i], "modelName"),
     dataset |-> st.dataset,
     body |-> EvaluateBody(Get(st.models[st.i], "modelId"), st.datasetPath),
     index |-> st.i, sent |-> st.sent, settled |-> Len(st.results)]

\* The for loop from model i on, up to the next await or the end of the list.
\* st is [models, dataset, datasetPath, i, results, fates]; draws[j] are the
\* random values model j consumes if it is a library model.
RECURSIVE EvaluateFrom(_, _)
EvaluateFrom(st, draws) ==
    IF st.i > Len(st.models)
    THEN [st EXCEPT !.pc = "idle"]
    ELSE LET model == st.models[st.i]
         IN  IF Truthy(Get(model, "fromLibrary"))
             THEN EvaluateFrom(
                      [st EXCEPT !.i = @ + 1,
                                 !.results = Append(@, SuccessResult(model, SimulatedMetrics(draws[st.i]))),
                                 !.fates = Append(@, "simulated")],
                      draws)
             ELSE IF DatasetMissing(st.dataset, st.datasetPath)
             THEN EvaluateFrom(
                      [st EXCEPT !.i = @ + 1,
                                 !.results = Append(@, ErrorResult(model, NoDatasetMessage)),
                                 !.fates = Append(@, "noDataset")],
                      draws)
             ELSE [st EXCEPT !.pc = "awaiting"]

\* what handleEvaluate does once st says where the loop stopped; starting is
\* TRUE for the part of the call that began with setLoading(true)
Continue(r, st, starting) ==
    IF st.pc = "awaiting"
    THEN /\ runs' = [runs EXCEPT ![r] = [st EXCEPT !.sent = @ + 1]]
         /\ loading' = IF starting THEN TRUE ELSE loading
         /\ requests' = requests \cup {EvaluateRequest(st)}
         /\ UNCHANGED <<error, comparisonResults, lastRun>>
    ELSE /\ runs' = [runs EXCEPT ![r] = IdleRun]
         /\ comparisonResults' = st.results
         /\ error' = JsNull
         /\ loading' = FALSE
         /\ lastRun' = [done |-> TRUE, models |-> st.models, dataset |-> st.dataset,
                        datasetPath |-> st.datasetPath, results |-> st.results,
                        fates |-> st.fates]
         /\ UNCHANGED requests

\* the draws a call may consume from model i on: one per library model
DrawsFrom(models, i) ==
    {draws \in [1..Len(models) -> RandomDraws] :
        \A j \in 1..Len(models) :
            (j < i \/ ~Truthy(Get(models[j], "fromLibrary")))
                => draws[j] = CHOOSE d \in RandomDraws : d.accuracy = 0}

\* a click on Evaluate; the button is rendered while selectedModels.length > 0
HandleEvaluate(r) ==
    /\ phase = "running"
    /\ runs[r].pc = "idle"
    /\ Len(selectedModels) > 0
    /\ \E draws \in DrawsFrom(selectedModels, 1) :
            Continue(r, EvaluateFrom(
                [pc |-> "idle", models |-> selectedModels, dataset |-> dataset,
                 datasetPath |-> datasetPath, i |-> 1, results |-> <<>>, fates |-> <<>>,
                 sent |-> 0],
                draws), TRUE)
    /\ UNCHANGED <<phase, storeVars, datasetVars>>
    /\ UNCHANGED otherVars

\* a variant of the step with a slip in it: a failed request is sent again
EvaluateSettledRetries(r, outcome) ==
    /\ phase = "running"
    /\ runs[r].pc = "awaiting"
    /\ LET run == runs[r]
           model == run.models[run.i]
       IN  IF outcome.kind # "metrics"
           THEN Continue(r, run, FALSE)
           ELSE \E draws \in DrawsFrom(run.models, run.i + 1) :
                   Continue(r, EvaluateFrom(
                       [run EXCEPT !.i = @ + 1,
                                   !.results = PushSettled(@, model, outcome),
                                   !.fates = Append(@, outcome.kind)],
                       draws), FALSE)
    /\ UNCHANGED <<phase, storeVars, datasetVars>>
    /\ UNCHANGED otherVars

\* the request a suspended call waits for settles
EvaluateSettled(r, outcome) ==
    /\ phase = "running"
    /\ runs[r].pc = "awaiting"
    /\ LET run == runs[r]
           model == run.models[run.i]
       IN  \E draws \in DrawsFrom(run.models, run.i + 1) :
               Continue(r, EvaluateFrom(
                   [run EXCEPT !.i = @ + 1,
                               !.results = PushSettled(@, model, outcome),
                               !.fates = Append(@, outcome.kind)],
                   draws), FALSE)
    /\ UNCHANGED <<phase, storeVars, datasetVars>>
    /\ UNCHANGED otherVars

(***************************************************************************)
(* SpecEval: an evaluation run on a page that holds a selection and, or    *)
(* not, an uploaded dataset.                                               *)
(***************************************************************************)
\* the lists of the store: entries of distinct names
Selections ==
    {l \in UNION {[1..n -> Models] : n \in 0..NumNames} :
        \A i, j \in 1..Len(l) :
            i # j => Get(l[i], "modelName") # Get(l[j], "modelName")}

\* dataset (the File, lost by a reload) and datasetPath (rehydrated)
DatasetStates ==
    {[dataset |-> JsNull, datasetPath |-> JsNull],
     [dataset |-> "File", datasetPath |-> JsNull],
     [dataset |-> "File", datasetPath |-> "datasets/data.csv"],
     [dataset |-> JsNull, datasetPath |-> "datasets/data.csv"]}

InitEval ==
    /\ phase = "running"
    /\ selectedModels \in Selections
    /\ \E d \in DatasetStates :
            /\ dataset = d.dataset
            /\ datasetPath = d.datasetPath
            /\ localStorage =
                   [selectedModels |-> IF selectedModels = <<>>
                                       THEN NoItem
                                       ELSE JSONstringify(selectedModels),
                    datasetPath |-> d.datasetPath]
    /\ loading = FALSE
    /\ error = JsNull
    /\ comparisonResults = <<>>
    /\ runs = [r \in RunIds |-> IdleRun]
    /\ lastRun = NoRun
    /\ requests = {}
    /\ lastOp = NoOp
    /\ addLog = NamesOf(selectedModels)
    /\ InitOther

\* SpecEval follows one call of handleEvaluate per visit of the page
EvalNext ==
    \/ ~lastRun.done /\ HandleEvaluate("r1")
    \/ \E outcome \in EvalOutcomes : EvaluateSettled("r1", outcome)
    \/ ClearModels
    \/ Reload
    \/ Mount

SpecEval == InitEval /\ [][EvalNext]_vars

(***************************************************************************)
(* SpecOverlap: clicks on Evaluate while an earlier call is still awaiting *)
(* its request.  The button is rendered with                               *)
(* disabled={selectedModels.length === 0}; each click starts a call of     *)
(* handleEvaluate with its own closure.                                    *)
(***************************************************************************)
\* how many models the selection holds when the clicks begin
MaxOverlapLen == 1

InitOverlap ==
    /\ InitEval
    /\ Len(selectedModels) <= MaxOverlapLen

\* the calls the model follows at once: a click takes a free slot of runs
OverlapNext ==
    \/ \E r \in RunIds : ~lastRun.done /\ HandleEvaluate(r)
    \/ \E r \in RunIds, outcome \in EvalOutcomes : EvaluateSettled(r, outcome)
    \/ ClearModels
    \/ Reload
    \/ Mount

SpecOverlap == InitOverlap /\ [][OverlapNext]_vars

(***************************************************************************)
(* SpecLoad: the same store, on a visit that finds anything under the      *)
(* 'selectedModels' key: nothing, a list an earlier visit wrote, or a      *)
(* payload that is not JSON.                                               *)
(***************************************************************************)
StoredAtLoad ==
    {NoItem, CorruptText}
        \cup {JSONstringify(<<m>>) : m \in Models}
        \cup {JSONstringify(<<UploadedModel(NameOf[1]), LibraryPageModel(NameOf[2])>>)}

InitLoad ==
    /\ InitMemory
    /\ \E item \in StoredAtLoad :
            localStorage = [selectedModels |-> item, datasetPath |-> JsNull]

SpecLoad == InitLoad /\ [][StoreNext]_vars

(***************************************************************************)
(* ModelUploader (src/src/components/ModelUploader.tsx).  Every handler    *)
(* runs to its fetch, is suspended there, and runs its try, catch and      *)
(* finally blocks to the end when the fetch settles.  The file inputs are  *)
(* never disabled by loading, so handler calls overlap.                    *)
(***************************************************************************)
DatasetFiles == {"d1.csv", "d2.csv"}

ModelFiles == {"m.pkl"}

\* the columns the service reads from a dataset file
ColumnsOf(file) == IF file = "d1.csv" THEN <<"age", "label">> ELSE <<"price", "label">>

\* how the fetch of a handler settles: it rejects, or it resolves with a
\* response (response.ok) and a JSON body
Rejected == [rejected |-> TRUE, ok |-> FALSE, success |-> FALSE, error |-> Undefined,
             message |-> Undefined, hasPath |-> FALSE, hasColumns |-> FALSE]

Answer(isOk, isSuccess, err, msg, path, cols) ==
    [rejected |-> FALSE, ok |-> isOk, success |-> isSuccess, error |-> err,
     message |-> msg, hasPath |-> path, hasColumns |-> cols]

DatasetUploadOutcomes ==
    {Rejected,
     Answer(FALSE, FALSE, "Unsupported file type", Undefined, FALSE, FALSE),
     Answer(FALSE, FALSE, Undefined, Undefined, FALSE, FALSE),
     Answer(TRUE, FALSE, Undefined, Undefined, FALSE, FALSE),
     Answer(TRUE, TRUE, Undefined, Undefined, TRUE, FALSE),
     Answer(TRUE, TRUE, Undefined, Undefined, TRUE, TRUE)}

ModelUploadOutcomes ==
    {Rejected,
     Answer(FALSE, FALSE, "Invalid file", Undefined, FALSE, FALSE),
     Answer(TRUE, TRUE, Undefined, Undefined, TRUE, FALSE)}

AnalysisOutcomes ==
    {Rejected,
     Answer(FALSE, FALSE, Undefined, "Column not found", FALSE, FALSE),
     Answer(TRUE, TRUE, Undefined, Undefined, FALSE, FALSE)}

EvaluateModelOutcomes ==
    {Rejected,
     Answer(TRUE, FALSE, Undefined, Undefined, FALSE, FALSE),
     Answer(TRUE, FALSE, Undefined, "Model and dataset do not match", FALSE, FALSE),
     Answer(TRUE, TRUE, Undefined, Undefined, FALSE, FALSE)}

\* a || b on tokens
OrElse(a, b) == IF Truthy(a) THEN a ELSE b

\* data.filepath of an upload answer
FilepathOf(file, outcome) == IF outcome.hasPath THEN "uploads/" \o file ELSE Undefined

\* handleDatasetUpload from the settled fetch on: try, catch, finally
DatasetUploadSettle(u, file, outcome) ==
    LET failure(msg) ==
            [u EXCEPT !.error = msg, !.availableColumns = <<>>,
                      !.selectedTarget = EmptyString, !.loading = FALSE]
    IN  IF outcome.rejected THEN failure("Failed to fetch")
        ELSE IF ~outcome.ok THEN failure(OrElse(outcome.error, "Failed to upload dataset"))
        ELSE IF ~outcome.success
             THEN failure(OrElse(outcome.error, "Failed to process dataset"))
        ELSE IF ~outcome.hasColumns
             THEN [failure("No columns found in dataset")
                      EXCEPT !.datasetPath = FilepathOf(file, outcome)]
        ELSE [u EXCEPT !.datasetPath = FilepathOf(file, outcome),
                       !.availableColumns = ColumnsOf(file),
                       !.selectedTarget = EmptyString,
                       !.error = JsNull,
                       !.loading = FALSE]

\* handleModelUpload from the settled fetch on (response.ok is not read)
ModelUploadSettle(u, file, outcome) ==
    IF outcome.rejected
    THEN [u EXCEPT !.error = "Failed to upload model", !.loading = FALSE]
    ELSE [u EXCEPT !.modelPath = FilepathOf(file, outcome), !.error = JsNull,
                   !.loading = FALSE]

\* handleTargetSelect from the settled fetch on
AnalysisSettle(u, target, outcome) ==
    IF ~outcome.rejected /\ outcome.ok
    THEN [u EXCEPT !.datasetAnalysis = "analysis of " \o target, !.loading = FALSE]
    ELSE [u EXCEPT !.error = "Failed to analyze dataset", !.loading = FALSE]

\* handleEvaluate from the settled fetch on
EvaluateModelSettle(u, target, outcome) ==
    IF outcome.rejected
    THEN [u EXCEPT !.error = "Failed to evaluate model", !.loading = FALSE]
    ELSE IF outcome.success
    THEN [u EXCEPT !.evaluationResults = "results for " \o target, !.error = JsNull,
                   !.loading = FALSE]
    ELSE [u EXCEPT !.error = OrElse(outcome.message, "Evaluation failed"),
                   !.loading = FALSE]

\* whether the handler call took its failure path
Failed(kind, outcome) ==
    CASE kind = "datasetUpload" -> ~(~outcome.rejected /\ outcome.ok /\ outcome.success
                                        /\ outcome.hasColumns)
      [] kind = "modelUpload" -> outcome.rejected
      [] kind = "analysis" -> ~(~outcome.rejected /\ outcome.ok)
      [] OTHER -> ~(~outcome.rejected /\ outcome.success)

FreeCalls == {c \in CallIds : uploaderCalls[c].kind = "none"}

\* a handler reaches its fetch: the call waits in the lowest free slot
Suspend(kind, arg, u) ==
    /\ FreeCalls # {}
    /\ LET c == IF "c1" \in FreeCalls THEN "c1" ELSE "c2"
       IN  uploaderCalls' = [uploaderCalls EXCEPT ![c] = [kind |-> kind, arg |-> arg]]
    /\ uploader' = u
    /\ UNCHANGED <<uploaderLast, notUploader>>

\* the fetch of call c settles and its handler runs to the end
Settle(c, kind, u, outcome) ==
    /\ uploaderCalls[c].kind = kind
    /\ uploader' = u
    /\ uploaderCalls' = [uploaderCalls EXCEPT ![c] = NoCall]
    /\ uploaderLast' = [kind |-> kind, failed |-> Failed(kind, outcome),
                        before |-> Obtained(uploader)]
    /\ UNCHANGED notUploader

UploaderHandleDatasetUpload(file) ==
    Suspend("datasetUpload", file,
            [uploader EXCEPT !.datasetFile = file, !.loading = TRUE, !.error = JsNull])

UploaderDatasetUploadSettled(c, outcome) ==
    Settle(c, "datasetUpload",
           DatasetUploadSettle(uploader, uploaderCalls[c].arg, outcome), outcome)

\* the file input of the model is rendered with disabled={!selectedTarget}
UploaderHandleModelUpload(file) ==
    /\ Truthy(uploader.selectedTarget)
    /\ Suspend("modelUpload", file, [uploader EXCEPT !.modelFile = file, !.loading = TRUE])

UploaderModelUploadSettled(c, outcome) ==
    Settle(c, "modelUpload",
           ModelUploadSettle(uploader, uploaderCalls[c].arg, outcome), outcome)

\* the select is rendered while availableColumns.length > 0; its options are
\* the empty value and the columns
UploaderHandleTargetSelect(target) ==
    /\ Len(uploader.availableColumns) > 0
    /\ target \in Range(uploader.availableColumns) \cup {EmptyString}
    /\ target # uploader.selectedTarget
    /\ IF ~Truthy(target)
       THEN /\ uploader' = [uploader EXCEPT !.selectedTarget = target]
            /\ UNCHANGED <<uploaderCalls, uploaderLast, notUploader>>
       ELSE Suspend("analysis", target,
                    [uploader EXCEPT !.selectedTarget = target, !.loading = TRUE])

UploaderAnalysisSettled(c, outcome) ==
    Settle(c, "analysis", AnalysisSettle(uploader, uploaderCalls[c].arg, outcome), outcome)

\* the button is rendered with
\* disabled={loading || !modelPath || !datasetPath || !selectedTarget}
UploaderHandleEvaluate ==
    /\ ~uploader.loading
    /\ Truthy(uploader.modelPath)
    /\ Truthy(uploader.datasetPath)
    /\ Truthy(uploader.selectedTarget)
    /\ Suspend("evaluate", uploader.selectedTarget, [uploader EXCEPT !.loading = TRUE])

UploaderEvaluateSettled(c, outcome) ==
    Settle(c, "evaluate",
           EvaluateModelSettle(uploader, uploaderCalls[c].arg, outcome), outcome)

UploaderNext ==
    \/ \E file \in DatasetFiles : UploaderHandleDatasetUpload(file)
    \/ \E c \in CallIds, outcome \in DatasetUploadOutcomes :
            UploaderDatasetUploadSettled(c, outcome)
    \/ \E file \in ModelFiles : UploaderHandleModelUpload(file)
    \/ \E c \in CallIds, outcome \in ModelUploadOutcomes :
            UploaderModelUploadSettled(c, outcome)
    \/ \E target \in {"age", "price", "label", EmptyString} : UploaderHandleTargetSelect(target)
    \/ \E c \in CallIds, outcome \in AnalysisOutcomes : UploaderAnalysisSettled(c, outcome)
    \/ UploaderHandleEvaluate
    \/ \E c \in CallIds, outcome \in EvaluateModelOutcomes :
            UploaderEvaluateSettled(c, outcome)

\* the component is mounted on a page of the loaded app
InitUploader ==
    /\ Init
    /\ phase = "mounting"

SpecUploader == InitUploader /\ [][UploaderNext]_vars

(***************************************************************************)
(* File names and the validators of dataset files.  A file name is the     *)
(* sequence of its segments between the dots: "data.csv" is                *)
(* <<"data", "csv">>, "csv" is <<"csv">>, ".csv" is <<"", "csv">>.         *)
(* Sizes are in bytes.                                                     *)
(***************************************************************************)
\* String.prototype.toLowerCase on the segments in use
ToLowerCase(segment) ==
    CASE segment = "CSV" -> "csv"
      [] segment = "XLS" -> "xls"
      [] segment = "XLSX" -> "xlsx"
      [] segment = "Data" -> "data"
      [] segment = "PKL" -> "pkl"
      [] segment = "H5" -> "h5"
      [] segment = "Model" -> "model"
      [] OTHER -> segment

LastSegment(name) == name[Len(name)]

\* name.lastIndexOf('.') === -1
NoDot(name) == Len(name) = 1

\* name.substring(name.lastIndexOf('.')).toLowerCase(): substring(-1) is
\* substring(0), the whole name
SubstringFromLastDot(name) ==
    IF NoDot(name) THEN ToLowerCase(name[1]) ELSE "." \o ToLowerCase(LastSegment(name))

\* name.split('.').pop()?.toLowerCase()
SplitPop(name) == ToLowerCase(LastSegment(name))

\* path.extname(name): from the last dot on; empty when the name has no dot,
\* when its only dot is its first character, and for ".."
Extname(name) ==
    IF NoDot(name) \/ (Len(name) = 2 /\ name[1] = "") \/ name = <<"", "", "">>
    THEN ""
    ELSE "." \o LastSegment(name)

\* path.extname(name).toLowerCase()
ExtnameLowerCase(name) ==
    IF Extname(name) = "" THEN "" ELSE "." \o ToLowerCase(LastSegment(name))

DatasetExtensions == {".csv", ".xlsx", ".xls"}

\* the filter option of the dataset upload handler's form
DatasetFilter(name) == ExtnameLowerCase(name) \in DatasetExtensions

\* DatasetUploader.handleDatasetUpload: validTypes.includes(fileExtension)
DatasetUploaderAccepts(name) == SubstringFromLastDot(name) \in DatasetExtensions

\* validateDataset: ['csv', 'xlsx'].includes(fileType || '')
ValidateDataset(name) == SplitPop(name) \in {"csv", "xlsx"}

MaxDatasetSize == 100 * 1024 * 1024

\* the status the dataset upload handler answers a POST of one file with:
\* a file the filter drops leaves files.file empty, a file over maxFileSize
\* makes form.parse throw
DatasetUploadStatus(file) ==
    IF ~DatasetFilter(file.name) THEN 400
    ELSE IF file.size > MaxDatasetSize THEN 500
    ELSE 200

DatasetNames ==
    {<<"data", "csv">>, <<"Data", "CSV">>, <<"data", "xlsx">>, <<"data", "XLSX">>,
     <<"data", "xls">>, <<"data", "XLS">>, <<"data", "txt">>, <<"data", "json">>,
     <<"data", "csv", "bak">>, <<"data", "v2", "csv">>, <<"csv">>, <<"xlsx">>,
     <<"", "csv">>, <<"data", "">>, <<"data">>}

FileSizes ==
    {1024, MaxDatasetSize, MaxDatasetSize + 1, 500 * 1024 * 1024, 500 * 1024 * 1024 + 1,
     1024 * 1024 * 1024, 1024 * 1024 * 1024 + 1}

DatasetFileInputs == [name : DatasetNames, size : FileSizes]

\* one file goes through every dataset-upload flow
ValidateDatasetFile(file) ==
    /\ probe' = [probed |-> TRUE,
                 file |-> file,
                 datasetUploader |-> DatasetUploaderAccepts(file.name),
                 validateDataset |-> ValidateDataset(file.name),
                 handlerStatus |-> DatasetUploadStatus(file)]
    /\ UNCHANGED notProbe

ValidateNext == \E file \in DatasetFileInputs : ValidateDatasetFile(file)

SpecValidate == Init /\ [][ValidateNext]_vars

(***************************************************************************)
(* The upload handlers of the server: the dataset upload handler           *)
(* (src/unnamed/part_005) and the model upload handler                     *)
(* (src/src/pages/api/model/upload.ts).  A handler call is suspended at    *)
(* each await (form.parse, readFile, rename); calls of different requests  *)
(* interleave there.  form.parse writes the file it accepts under a        *)
(* staging name of its own in uploadDir.                                   *)
(***************************************************************************)
\* how far the clock is followed
MaxClock == 2

\* Date.now().toString() at each millisecond of the clock
NowString(c) ==
    <<"1700000000000", "1700000000001", "1700000000002", "1700000000003",
      "1700000000004", "1700000000005">>[c + 1]

MaxModelUploadSize == 500 * 1024 * 1024

\* file.name.toLowerCase().endsWith('.pkl')
EndsWithPkl(name) == Len(name) >= 2 /\ ToLowerCase(LastSegment(name)) = "pkl"

\* validateModelFile: the message of the ModelValidationError, "" if it resolves
ValidateModelFile(file) ==
    IF ~EndsWithPkl(file.name) THEN "Invalid file format. Only .pkl files are supported."
    ELSE IF file.size > MaxModelUploadSize THEN "File size too large. Maximum size is 500MB."
    ELSE ""

\* the name form.parse stages the file of request q under (keepExtensions)
StagedPath(dir, q, name) == dir \o "upload_" \o q \o Extname(name)

WriteFile(files, path, content) ==
    {f \in files : f.path # path} \cup {[path |-> path, content |-> content]}

RemoveFile(files, path) == {f \in files : f.path # path}

\* fs.promises.rename(from, to): the file at `to`, if any, is replaced
Rename(files, from, to) ==
    LET moved == CHOOSE f \in files : f.path = from
    IN  WriteFile(RemoveFile(files, from), to, moved.content)

\* the files form.parse leaves when it throws on a file over maxFileSize:
\* the part it had written, removed or not
AfterParseError(files, path, q) == {files, WriteFile(files, path, q)}

Respond(h, status, message) ==
    [h EXCEPT !.pc = "done", !.status = status, !.error = message]

\* the dataset upload handler up to its await of rename
DatasetUploadParsed(q, file) ==
    /\ handlers[q].pc = "idle"
    /\ LET h == [NoHandler EXCEPT !.kind = "dataset", !.file = file]
           staged == StagedPath("uploads/datasets/", q, file.name)
       IN  IF ~DatasetFilter(file.name)
           THEN /\ handlers' = [handlers EXCEPT ![q] = Respond(h, 400, "No file part")]
                /\ UNCHANGED disk
           ELSE IF file.size > MaxDatasetSize
           THEN /\ handlers' = [handlers EXCEPT ![q] =
                                   Respond(h, 500, "options.maxFileSize exceeded")]
                /\ disk' \in AfterParseError(disk, staged, q)
           ELSE /\ handlers' = [handlers EXCEPT ![q] =
                       [h EXCEPT !.pc = "renaming",
                                 !.staged = staged,
                                 !.id = NowString(clock),
                                 !.finalPath = "uploads/datasets/dataset_"
                                                  \o NowString(clock) \o Extname(file.name)]]
                /\ disk' = WriteFile(disk, staged, q)
    /\ UNCHANGED <<clock, notUploads>>

\* the model upload handler up to its await of readFile
ModelUploadParsed(q, file) ==
    /\ handlers[q].pc = "idle"
    /\ LET h == [NoHandler EXCEPT !.kind = "model", !.file = file]
           staged == StagedPath("uploads/", q, file.name)
       IN  IF file.size > MaxModelUploadSize
           THEN /\ handlers' = [handlers EXCEPT ![q] =
                       Respond(h, 500, "Upload failed: options.maxFileSize exceeded")]
                /\ disk' \in AfterParseError(disk, staged, q)
           ELSE /\ handlers' = [handlers EXCEPT ![q] =
                                   [h EXCEPT !.pc = "reading", !.staged = staged]]
                /\ disk' = WriteFile(disk, staged, q)
    /\ UNCHANGED <<clock, notUploads>>

\* the model upload handler from the file read to its await of rename
ModelFileRead(q) ==
    /\ handlers[q].pc = "reading"
    /\ LET h == handlers[q]
           message == ValidateModelFile(h.file)
       IN  handlers' = [handlers EXCEPT ![q] =
               IF message # ""
               THEN Respond(h, 500, "Upload failed: " \o message)
               ELSE [h EXCEPT !.pc = "renaming",
                              !.id = NowString(clock),
                              !.finalPath = "uploads/" \o NowString(clock) \o ".pkl"]]
    /\ UNCHANGED <<clock, disk, notUploads>>

\* the rename of either handler completes and the handler answers 200
UploadRenamed(q) ==
    /\ handlers[q].pc = "renaming"
    /\ disk' = Rename(disk, handlers[q].staged, handlers[q].finalPath)
    /\ handlers' = [handlers EXCEPT ![q] = Respond(@, 200, "")]
    /\ UNCHANGED <<clock, notUploads>>

\* a millisecond passes
Tick ==
    /\ clock < MaxClock
    /\ clock' = clock + 1
    /\ UNCHANGED <<disk, handlers, notUploads>>

DatasetUploads ==
    [name : {<<"data", "csv">>, <<"data", "xls">>, <<"data", "txt">>},
     size : {1024, MaxDatasetSize + 1}]

ModelUploads ==
    [name : {<<"model", "pkl">>, <<"Model", "PKL">>, <<"model", "h5">>},
     size : {1024, MaxModelUploadSize + 1}]

ServerNext ==
    \/ \E q \in ReqIds, file \in DatasetUploads : DatasetUploadParsed(q, file)
    \/ \E q \in ReqIds, file \in ModelUploads : ModelUploadParsed(q, file)
    \/ \E q \in ReqIds : ModelFileRead(q)
    \/ \E q \in ReqIds : UploadRenamed(q)
    \/ Tick

SpecServer == Init /\ [][ServerNext]_vars

(***************************************************************************)
(* UnifiedBenchmarkPage.handleModelUpload: the validation of the chosen    *)
(* file, the upload and the addModel that follows a successful answer.     *)
(***************************************************************************)
\* the last character of a name without a dot, for the names in use
LastCharacter(segment) ==
    CASE segment = "pkl" -> "l"
      [] segment = "h5" -> "5"
      [] segment = "model" -> "l"
      [] OTHER -> "t"

\* file.name.toLowerCase().slice(file.name.lastIndexOf('.')): slice(-1) is the
\* last character
SliceFromLastDot(name) ==
    IF NoDot(name)
    THEN LastCharacter(ToLowerCase(name[1]))
    ELSE "." \o ToLowerCase(LastSegment(name))

ValidExtensions == {".h5", ".pt", ".pth", ".onnx", ".pkl"}

MaxSize == 1024 * 1024 * 1024

InvalidFormatMessage == "Invalid file format. Supported formats: .h5, .pt, .pth, .onnx, .pkl"

FileTooLargeMessage == "File size exceeds limit (max 1GB)"

\* variants of the validation with a slip in them
ValidateModelUploadNoCeiling(file) ==
    IF SliceFromLastDot(file.name) \notin ValidExtensions THEN "format" ELSE "accepted"

\* the validation at the head of handleModelUpload
ValidateModelUpload(file) ==
    IF SliceFromLastDot(file.name) \notin ValidExtensions THEN "format"
    ELSE IF file.size > MaxSize THEN "size"
    ELSE "accepted"

RECURSIVE JoinName(_)
\* the name as a string
JoinName(name) ==
    IF Len(name) = 1 THEN name[1] ELSE JoinName(SubSeq(name, 1, Len(name) - 1)) \o "." \o name[Len(name)]

\* newModel of handleModelUpload
NewModel(file, filepath) ==
    MkObj({<<"modelName", JoinName(file.name)>>, <<"modelId", filepath>>,
           <<"fromLibrary", JsFalse>>})

\* what api.uploadModel resolves with: it catches every failure itself
UploadModelOutcomes ==
    {[error |-> Undefined, hasPath |-> TRUE],
     [error |-> "Failed to fetch", hasPath |-> FALSE],
     [error |-> "Invalid file", hasPath |-> FALSE]}

\* how many uploaded models the store holds before the uploads stop
MaxUploads == 2

\* a file is chosen; the input is rendered with disabled={loading}
HandleModelUpload(file) ==
    /\ phase = "running"
    /\ ~loading
    /\ Len(selectedModels) < MaxUploads
    /\ LET verdict == ValidateModelUpload(file)
       IN  /\ lastUpload' = [called |-> TRUE, file |-> file, verdict |-> verdict]
           /\ IF verdict = "format"
              THEN /\ error' = InvalidFormatMessage
                   /\ UNCHANGED <<loading, uploadCall>>
              ELSE IF verdict = "size"
              THEN /\ error' = FileTooLargeMessage
                   /\ UNCHANGED <<loading, uploadCall>>
              ELSE /\ loading' = TRUE
                   /\ error' = JsNull
                   /\ uploadCall' = [called |-> TRUE, file |-> file, verdict |-> verdict]
    /\ UNCHANGED <<phase, storeVars, datasetVars, comparisonResults, runs, lastRun, requests>>
    /\ UNCHANGED notPage

\* api.uploadModel resolves and handleModelUpload runs to the end
UploadModelSettled(outcome) ==
    /\ phase = "running"
    /\ uploadCall.called
    /\ uploadCall' = NoUploadCall
    /\ loading' = FALSE
    /\ IF Truthy(outcome.error)
       THEN /\ error' = outcome.error
            /\ UNCHANGED storeVars
       ELSE LET model == NewModel(uploadCall.file, "uploads/" \o JoinName(uploadCall.file.name))
                r == AddModelUpdater(selectedModels, localStorage.selectedModels, model)
            IN  /\ selectedModels' = r.models
                /\ localStorage' = [localStorage EXCEPT !.selectedModels = r.item]
                /\ lastOp' = Op("addModel", Get(model, "modelName"), model)
                /\ addLog' = IF Get(model, "modelName") \in Range(addLog)
                             THEN addLog
                             ELSE Append(addLog, Get(model, "modelName"))
                /\ error' = JsNull
    /\ UNCHANGED <<phase, datasetVars, comparisonResults, runs, lastRun, requests>>
    /\ UNCHANGED <<lastUpload, notPage>>

ModelFileNames ==
    {<<"model", "pkl">>, <<"Model", "PKL">>, <<"net", "h5">>, <<"net", "pt">>,
     <<"net", "pth">>, <<"net", "onnx">>, <<"net", "txt">>, <<"pkl">>, <<"", "pkl">>,
     <<"net", "pkl", "bak">>, <<"net", "">>}

ModelFileInputs == [name : ModelFileNames, size : {1024, MaxSize, MaxSize + 1}]

ModelUploadNext ==
    \/ Mount
    \/ \E file \in ModelFileInputs : HandleModelUpload(file)
    \/ \E outcome \in UploadModelOutcomes : UploadModelSettled(outcome)
    \/ ClearModels

SpecModelUpload == Init /\ [][ModelUploadNext]_vars

(***************************************************************************)
(* The chat handler (src/unnamed/part_004): POST /api/chat.  The request   *)
(* body is a JSON object; message and model are the values of its two      *)
(* members, absent members reading as undefined.                           *)
(***************************************************************************)
\* !v on a value of a request body
Falsy(v) ==
    \/ v.type \in {"undefined", "null"}
    \/ v.type = "string" /\ v.text = ""
    \/ v.type = "number" /\ v.text = "0"
    \/ v.type = "boolean" /\ v.text = "false"

ChatModels == {"gpt-4", "gpt-3.5-turbo", "claude-2", "llama-2"}

\* variants of the checks with a slip in them
InvalidModelNeverChecked(model) == Falsy(model)

\* !message || typeof message !== 'string'
InvalidMessage(message) == Falsy(message) \/ message.type # "string"

\* !model || ![...].includes(model): includes compares with ===
InvalidModel(model) == Falsy(model) \/ ~(model.type = "string" /\ model.text \in ChatModels)

\* new Date().toISOString() at each millisecond of the clock
IsoString(c) ==
    <<"2023-11-14T22:13:20.000Z", "2023-11-14T22:13:20.001Z", "2023-11-14T22:13:20.002Z",
      "2023-11-14T22:13:20.003Z", "2023-11-14T22:13:20.004Z", "2023-11-14T22:13:20.005Z">>[c + 1]

\* `${v}` of a string
ChatContent(model, message) ==
    "This is a simulated response from " \o model.text \o " to your message: \""
        \o message.text \o "\""

ChatAnswer(c, status, body) == [c EXCEPT !.pc = "done", !.status = status, !.body = body]

\* the handler up to its await of the timer
ChatRequest(method, message, model) ==
    /\ chat.pc = "idle"
    /\ LET c == [NoChat EXCEPT !.method = method, !.message = message, !.model = model]
       IN  chat' =
               IF method # "POST"
               THEN ChatAnswer(c, 405, MkObj({<<"error", "Method not allowed">>}))
               ELSE IF InvalidMessage(message)
               THEN ChatAnswer(c, 400, MkObj({<<"error", "Invalid message format">>}))
               ELSE IF InvalidModel(model)
               THEN ChatAnswer(c, 400, MkObj({<<"error", "Invalid model specified">>}))
               ELSE [c EXCEPT !.pc = "waiting"]
    /\ UNCHANGED <<clock, notChat>>

\* the timer fires and the handler answers
ChatAnswered ==
    /\ chat.pc = "waiting"
    /\ chat' = ChatAnswer(chat, 200,
                          MkObj({<<"id", NowString(clock)>>,
                                 <<"content", ChatContent(chat.model, chat.message)>>,
                                 <<"timestamp", IsoString(clock)>>}))
    /\ UNCHANGED <<clock, notChat>>

\* a millisecond passes
ChatTick ==
    /\ clock < MaxClock
    /\ clock' = clock + 1
    /\ UNCHANGED <<chat, notChat>>

ChatMessages ==
    {Absent, Value("null", ""), Value("string", ""), Value("string", "hi"),
     Value("string", "2 + 2?"), Value("number", "42"), Value("number", "0"),
     Value("array", "hi")}

ChatModelValues ==
    {Value("string", m) : m \in ChatModels}
        \cup {Absent, Value("null", ""), Value("string", ""), Value("string", "gpt-5"),
              Value("string", "GPT-4"), Value("number", "4"), Value("array", "gpt-4")}

ChatNext ==
    \/ \E method \in {"POST", "GET"}, message \in ChatMessages, model \in ChatModelValues :
            ChatRequest(method, message, model)
    \/ ChatAnswered
    \/ ChatTick

SpecChat == Init /\ [][ChatNext]_vars

(***************************************************************************)
(* The inference handler of POST /api/model/inference: the checks on the   *)
(* request, the python process it starts and the answer it builds from the *)
(* process's exit code and output.  A path is the sequence of its          *)
(* segments, relative to process.cwd().                                   *)
(***************************************************************************)
UPLOADS_DIR == <<"uploads">>

PYTHON_SCRIPT == <<"scripts", "inference.py">>

\* the segments between the slashes of a model id, for the ids in use
Segments(text) ==
    CASE text = "../models/base" -> <<"..", "models", "base">>
      [] OTHER -> <<text>>

\* path.normalize: a ".." segment takes back the segment before it
RECURSIVE Normalize(_, _)
Normalize(done, rest) ==
    IF rest = <<>> THEN done
    ELSE IF Head(rest) = ".." /\ done # <<>> /\ done[Len(done)] # ".."
         THEN Normalize(SubSeq(done, 1, Len(done) - 1), Tail(rest))
         ELSE Normalize(Append(done, Head(rest)), Tail(rest))

\* path.join(dir, file): the two joined and normalized
PathJoin(dir, file) == Normalize(<<>>, dir \o file)

RECURSIVE PathString(_)
PathString(segments) ==
    IF Len(segments) = 1 THEN segments[1]
    ELSE segments[1] \o "/" \o PathString(Tail(segments))

\* `${modelId}.pkl` as path segments
PklFile(modelId) ==
    LET segments == Segments(modelId.text)
    IN  [segments EXCEPT ![Len(segments)] = @ \o ".pkl"]

ModelPathOf(modelId) == PathString(PathJoin(UPLOADS_DIR, PklFile(modelId)))

ExistsSync(path) == \E f \in disk : f.path = path

\* JSON.stringify of a request value
JSONstringifyValue(v) ==
    IF v.type = "string" THEN "\"" \o v.text \o "\"" ELSE v.text

\* JSON.parse of what the process printed: the texts in use that are JSON
ParsesAsJSON(text) == text \in {"{\"prediction\":1}", "null"}

InferenceError(message) == [kind |-> "error", text |-> message]

\* a variant of the answer with a slip in it
InferenceAnswerIgnoresStderr(code, stdout, stderr) ==
    IF code # "0"
    THEN [status |-> 500,
          body |-> InferenceError("Python process exited with code " \o code \o "\n" \o stderr)]
    ELSE IF ParsesAsJSON(stdout)
    THEN [status |-> 200, body |-> [kind |-> "json", text |-> stdout]]
    ELSE [status |-> 500, body |-> InferenceError("Failed to parse model output")]

\* the answer after the process closed with the given exit code and output
InferenceAnswer(code, stdout, stderr) ==
    IF code # "0"
    THEN [status |-> 500,
          body |-> InferenceError("Python process exited with code " \o code \o "\n" \o stderr)]
    ELSE IF stderr # ""
    THEN [status |-> 500, body |-> InferenceError("Model inference failed")]
    ELSE IF ParsesAsJSON(stdout)
    THEN [status |-> 200, body |-> [kind |-> "json", text |-> stdout]]
    ELSE [status |-> 500, body |-> InferenceError("Failed to parse model output")]

\* res.status(status).json(body)
InferenceRespond(h, status, body) ==
    [h EXCEPT !.pc = "done", !.responses = @ + 1, !.status = status, !.body = body]

\* spawn('python', [PYTHON_SCRIPT, modelPath, JSON.stringify(input)])
Spawn(modelPath, input) ==
    [state |-> "running", script |-> PathString(PYTHON_SCRIPT), modelPath |-> modelPath,
     input |-> JSONstringifyValue(input), code |-> "", stdout |-> "", stderr |-> ""]

\* the handler from the request to its first await
InferenceRequest(method, modelId, input) ==
    /\ inference.pc = "idle"
    /\ LET h == [inference EXCEPT !.method = method, !.modelId = modelId, !.input = input]
       IN  inference' =
             IF method # "POST"
             THEN InferenceRespond(h, 405, InferenceError("Method not allowed"))
             ELSE IF Falsy(modelId) \/ Falsy(input)
             THEN InferenceRespond(h, 400, InferenceError("Missing modelId or input"))
             ELSE IF ~ExistsSync(ModelPathOf(modelId))
             THEN InferenceRespond(h, 404, InferenceError("Model not found"))
             ELSE [h EXCEPT !.pc = "awaiting", !.spawned = @ + 1,
                            !.python = Spawn(ModelPathOf(modelId), input)]
    /\ UNCHANGED <<appVars, uploaderVars, probe, serverVars, uploadVars, datasetPageVars,
                   selection, llm>>

\* the 'close' event of the process: the handler resumes and answers
ProcessClosed(code, stdout, stderr) ==
    /\ inference.pc = "awaiting"
    /\ inference.python.state = "running"
    /\ LET answer == InferenceAnswer(code, stdout, stderr)
       IN  inference' =
             [InferenceRespond(inference, answer.status, answer.body)
                 EXCEPT !.python.state = "closed", !.python.code = code,
                        !.python.stdout = stdout, !.python.stderr = stderr]
    /\ UNCHANGED <<appVars, uploaderVars, probe, serverVars, uploadVars, datasetPageVars,
                   selection, llm>>

\* the process is one that never exits: no 'close' event will come
ProcessNeverExits ==
    /\ inference.pc = "awaiting"
    /\ inference.python.state = "running"
    /\ inference' = [inference EXCEPT !.python.state = "hung"]
    /\ UNCHANGED <<appVars, uploaderVars, probe, serverVars, uploadVars, datasetPageVars,
                   selection, llm>>

\* the process could not be started: an 'error' event nothing listens for
ProcessNotStarted ==
    /\ inference.pc = "awaiting"
    /\ inference.python.state = "running"
    /\ inference' = [inference EXCEPT !.python.state = "failed"]
    /\ UNCHANGED <<appVars, uploaderVars, probe, serverVars, uploadVars, datasetPageVars,
                   selection, llm>>

InferenceModelIds ==
    {Absent, Value("string", ""), Value("string", "1700000000000"),
     Value("string", "1700000000001"), Value("string", "../models/base")}

InferenceInputs ==
    {Absent, Value("string", ""), Value("number", "0"), Value("number", "5"),
     Value("string", "hi")}

ExitCodes == {"0", "1", "null"}

StdoutTexts == {"", "{\"prediction\":1}", "null", "Traceback"}

StderrTexts == {"", "UserWarning"}

\* the host's files when the requests arrive: an uploaded model, and a
\* pickle of the host outside uploads/
InitInference ==
    /\ phase = "mounting"
    /\ selectedModels = <<>>
    /\ localStorage = [selectedModels |-> NoItem, datasetPath |-> JsNull]
    /\ dataset = JsNull
    /\ datasetPath = JsNull
    /\ loading = FALSE
    /\ error = JsNull
    /\ comparisonResults = <<>>
    /\ runs = [r \in RunIds |-> IdleRun]
    /\ lastRun = NoRun
    /\ requests = {}
    /\ lastOp = NoOp
    /\ addLog = <<>>
    /\ disk = {[path |-> "uploads/1700000000000.pkl", content |-> "q1"],
               [path |-> "models/base.pkl", content |-> "host"]}
    /\ InitBesidesDisk

InferenceNext ==
    \/ \E method \in {"POST", "GET"}, modelId \in InferenceModelIds,
          input \in InferenceInputs :
            InferenceRequest(method, modelId, input)
    \/ \E code \in ExitCodes, stdout \in StdoutTexts, stderr \in StderrTexts :
            ProcessClosed(code, stdout, stderr)
    \/ ProcessNeverExits
    \/ ProcessNotStarted

SpecInference == InitInference /\ [][InferenceNext]_vars

(***************************************************************************)
(* DatasetProvider's operations and UnifiedBenchmarkPage's                 *)
(* handleDatasetUpload, which calls them around its upload request.        *)
(***************************************************************************)
\* localStorage.setItem('datasetPath', path) / removeItem('datasetPath')
StoreDatasetPath(store, path) ==
    [store EXCEPT !.datasetPath = IF Truthy(path) THEN path ELSE JsNull]

\* what the other variables of the dataset operations keep
datasetFrame ==
    <<phase, selectedModels, lastOp, addLog, comparisonResults, runs, lastRun, requests,
      uploaderVars, probe, serverVars, uploadVars, inference, selection, llm>>

\* setDataset(file)
SetDataset(file) ==
    /\ phase = "running"
    /\ dataset' = file
    /\ localStorage' = IF ~Truthy(file) THEN StoreDatasetPath(localStorage, JsNull)
                       ELSE localStorage
    /\ UNCHANGED <<datasetPath, loading, error, datasetPageVars, datasetFrame>>

\* setDatasetPath(path)
SetDatasetPath(path) ==
    /\ phase = "running"
    /\ datasetPath' = path
    /\ localStorage' = StoreDatasetPath(localStorage, path)
    /\ UNCHANGED <<dataset, loading, error, datasetPageVars, datasetFrame>>

\* clearDataset()
ClearDataset ==
    /\ phase = "running"
    /\ dataset' = JsNull
    /\ datasetPath' = JsNull
    /\ localStorage' = StoreDatasetPath(localStorage, JsNull)
    /\ UNCHANGED <<loading, error, datasetPageVars, datasetFrame>>

UploadedMessage == "Dataset uploaded successfully"

\* the body of the dataset upload handler's 200 answer
DatasetUploadBody ==
    MkObj({<<"id", "1700000000000">>, <<"filename", "dataset_1700000000000.csv">>,
           <<"originalName", "data.csv">>, <<"size", "1024">>, <<"type", "text/csv">>,
           <<"uploadedAt", "2023-11-14T22:13:20.000Z">>})

\* how the fetch of handleDatasetUpload ends: it rejects, or it resolves with
\* one of the handler's answers
DatasetFetchOutcomes ==
    {[rejected |-> TRUE, status |-> 0, data |-> MkObj({})],
     [rejected |-> FALSE, status |-> 200, data |-> DatasetUploadBody],
     [rejected |-> FALSE, status |-> 400, data |-> MkObj({<<"error", "No file part">>})],
     [rejected |-> FALSE, status |-> 500,
      data |-> MkObj({<<"error", "Failed to upload dataset">>})]}

\* the message handleDatasetUpload throws with, or null
DatasetUploadError(outcome) ==
    IF outcome.rejected THEN "Failed to fetch"
    ELSE IF outcome.status \notin 200..299
    THEN OrElse(Get(outcome.data, "error"), "Upload failed with status")
    ELSE IF Truthy(Get(outcome.data, "error")) THEN Get(outcome.data, "error")
    ELSE JsNull

\* handleDatasetUpload to its await of fetch
HandleDatasetUpload(file) ==
    /\ phase = "running"
    /\ datasetCall.pc = "idle"
    /\ Truthy(file)
    /\ dataset' = file
    /\ loading' = TRUE
    /\ error' = JsNull
    /\ datasetCall' = [pc |-> "awaiting", file |-> file]
    /\ UNCHANGED <<datasetPath, localStorage, successMessage, datasetFrame>>

\* the rest of handleDatasetUpload once the fetch has settled
DatasetUploadAnswered(outcome) ==
    /\ phase = "running"
    /\ datasetCall.pc = "awaiting"
    /\ LET message == DatasetUploadError(outcome)
           filepath == Get(outcome.data, "filepath")
       IN  IF message = JsNull
           THEN /\ datasetPath' = filepath
                /\ localStorage' = StoreDatasetPath(localStorage, filepath)
                /\ successMessage' = UploadedMessage
                /\ error' = error
           ELSE /\ error' = message
                /\ successMessage' = JsNull
                /\ UNCHANGED <<datasetPath, localStorage>>
    /\ loading' = FALSE
    /\ datasetCall' = [datasetCall EXCEPT !.pc = "idle"]
    /\ UNCHANGED <<dataset, datasetFrame>>

\* setTimeout(() => setSuccessMessage(null), 3000)
SuccessMessageExpires ==
    /\ phase = "running"
    /\ successMessage = UploadedMessage
    /\ successMessage' = JsNull
    /\ UNCHANGED <<appVars, datasetCall, uploaderVars, probe, serverVars, uploadVars,
                   inference, selection, llm>>

DatasetPaths ==
    {JsNull, Undefined, EmptyString, "uploads/dataset_1700000000000.csv",
     "uploads/dataset_1700000000001.csv"}

DatasetNext ==
    \/ Mount
    \/ Reload
    \/ \E file \in {JsNull, "File"} : SetDataset(file)
    \/ \E path \in DatasetPaths : SetDatasetPath(path)
    \/ ClearDataset
    \/ HandleDatasetUpload("File")
    \/ \E outcome \in DatasetFetchOutcomes : DatasetUploadAnswered(outcome)
    \/ SuccessMessageExpires

SpecDataset == Init /\ [][DatasetNext]_vars

(***************************************************************************)
(* ModelSelectionPage.handleModelUpload: the upload of the chosen file and *)
(* the addModel that follows it.                                           *)
(***************************************************************************)
\* what api.uploadModel resolves with: it catches every failure itself and
\* then answers with an empty filepath
SelectionUploadAnswers(file) ==
    {[message |-> "Upload successful", filepath |-> "uploads/" \o JoinName(file.name),
      error |-> Undefined],
     [message |-> "Upload failed", filepath |-> EmptyString, error |-> "Failed to fetch"],
     [message |-> "Upload failed", filepath |-> EmptyString,
      error |-> "Server response missing filepath"]}

\* newModel of ModelSelectionPage.handleModelUpload
SelectionNewModel(file, response) ==
    MkObj({<<"modelName", JoinName(file.name)>>, <<"modelId", response.filepath>>})

\* a file is chosen; the input is rendered with disabled={loading}
SelectionHandleModelUpload(file) ==
    /\ phase = "running"
    /\ ~selection.loading
    /\ Len(selectedModels) < MaxUploads
    /\ selection' = [selection EXCEPT !.loading = TRUE, !.error = JsNull,
                                      !.pc = "awaiting", !.file = file]
    /\ UNCHANGED <<appVars, uploaderVars, probe, serverVars, uploadVars, inference,
                   datasetPageVars, llm>>

\* api.uploadModel resolves and handleModelUpload runs to the end
SelectionUploadSettled(response) ==
    /\ phase = "running"
    /\ selection.pc = "awaiting"
    /\ response \in SelectionUploadAnswers(selection.file)
    /\ LET model == SelectionNewModel(selection.file, response)
           r == AddModelUpdater(selectedModels, localStorage.selectedModels, model)
       IN  /\ selectedModels' = r.models
           /\ localStorage' = [localStorage EXCEPT !.selectedModels = r.item]
           /\ lastOp' = Op("addModel", Get(model, "modelName"), model)
           /\ addLog' = IF Get(model, "modelName") \in Range(addLog)
                        THEN addLog
                        ELSE Append(addLog, Get(model, "modelName"))
    /\ selection' = [selection EXCEPT
                        !.loading = FALSE, !.error = JsNull, !.pc = "idle",
                        !.last = IF Truthy(response.error) THEN "failed" ELSE "succeeded"]
    /\ UNCHANGED <<phase, datasetVars, pageVars, uploaderVars, probe, serverVars, uploadVars,
                   inference, datasetPageVars, llm>>

SelectionFiles ==
    [name : {<<"model", "pkl">>, <<"net", "h5">>, <<"net", "pt">>}, size : {1024}]

SelectionNext ==
    \/ Mount
    \/ \E file \in SelectionFiles : SelectionHandleModelUpload(file)
    \/ \E file \in SelectionFiles :
          \E response \in SelectionUploadAnswers(file) : SelectionUploadSettled(response)
    \/ ClearModels

SpecSelection == Init /\ [][SelectionNext]_vars

(***************************************************************************)
(* LLMInteractionPage: handleSubmit, and the handlers that write the same  *)
(* state while a request of handleSubmit is outstanding.                   *)
(***************************************************************************)
\* how many messages the user sends before the model stops following
MaxSubmits == 2

\* input.trim(), for the texts in use
Trim(text) ==
    CASE text = " " -> EmptyString
      [] text = " hi " -> "hi"
      [] OTHER -> text

\* what the other variables of the chat page's actions keep
notLlm ==
    <<appVars, uploaderVars, probe, serverVars, uploadVars, inference, datasetPageVars,
      selection>>

\* the textarea's onChange
LlmSetInput(text) ==
    /\ llm.input # text
    /\ llm' = [llm EXCEPT !.input = text]
    /\ UNCHANGED notLlm

UserMessages(messages) == {i \in 1..Len(messages) : messages[i].role = "user"}

\* handleSubmit to its await of fetch; a submit with a blank input or with
\* isLoading set returns at once.  A request is known by the position of
\* its user message.
LlmHandleSubmit ==
    /\ Trim(llm.input) # EmptyString
    /\ ~llm.isLoading
    /\ Cardinality(UserMessages(llm.messages)) < MaxSubmits
    /\ LET userMessage == [role |-> "user", content |-> Trim(llm.input), cause |-> 0]
           request == [id |-> Len(llm.messages) + 1,
                       url |-> IF Truthy(llm.customModel) THEN "/api/model/inference"
                               ELSE "/api/chat"]
       IN  llm' = [llm EXCEPT !.messages = Append(@, userMessage), !.isLoading = TRUE,
                              !.error = JsNull, !.input = EmptyString,
                              !.submits = @ \cup {request}]
    /\ UNCHANGED notLlm

\* how the fetch of handleSubmit ends: it rejects, or it resolves with an
\* answer that is ok or not
SubmitOutcomes ==
    {[kind |-> "rejected", message |-> "Failed to fetch"],
     [kind |-> "notOk", message |-> "Model inference failed"],
     [kind |-> "notOk", message |-> "Failed to get response"],
     [kind |-> "ok", message |-> ""]}

\* the rest of handleSubmit once its fetch has settled
LlmSubmitSettled(request, outcome) ==
    /\ request \in llm.submits
    /\ llm' = IF outcome.kind = "ok"
              THEN [llm EXCEPT !.messages = Append(@, [role |-> "assistant",
                                                        content |-> "answer",
                                                        cause |-> request.id]),
                               !.isLoading = FALSE,
                               !.submits = @ \ {request}]
              ELSE [llm EXCEPT !.isLoading = FALSE, !.error = outcome.message,
                               !.submits = @ \ {request}]
    /\ UNCHANGED notLlm

\* handleModelFileUpload to its await of fetch, or to its early return; file
\* is the name of the chosen file, <<>> if none was chosen
LlmHandleModelFileUpload(file) ==
    /\ llm.upload = "idle"
    /\ llm' = IF file = <<>>
              THEN [llm EXCEPT !.error = "No file selected"]
              ELSE IF ~EndsWithPkl(file)
              THEN [llm EXCEPT !.error = "Invalid file format. Only .pkl files are supported."]
              ELSE [llm EXCEPT !.isLoading = TRUE, !.error = JsNull, !.upload = "awaiting"]
    /\ UNCHANGED notLlm

\* the rest of handleModelFileUpload once its fetch has settled
LlmModelFileUploadSettled(ok) ==
    /\ llm.upload = "awaiting"
    /\ llm' = IF ok
              THEN [llm EXCEPT !.customModel = "modelInfo", !.selectedModel = "custom",
                               !.isLoading = FALSE, !.upload = "idle"]
              ELSE [llm EXCEPT !.isLoading = FALSE, !.error = "Failed to upload model",
                               !.upload = "idle"]
    /\ UNCHANGED notLlm

\* the Remove button next to the custom model's name
LlmRemoveCustomModel ==
    /\ Truthy(llm.customModel)
    /\ llm' = [llm EXCEPT !.customModel = JsNull]
    /\ UNCHANGED notLlm

LlmInputs == {EmptyString, " ", "hi", " hi "}

LlmNext ==
    \/ \E text \in LlmInputs : LlmSetInput(text)
    \/ LlmHandleSubmit
    \/ \E request \in llm.submits, outcome \in SubmitOutcomes :
            LlmSubmitSettled(request, outcome)
    \/ \E file \in {<<>>, <<"model", "pkl">>, <<"model", "txt">>} :
            LlmHandleModelFileUpload(file)
    \/ \E ok \in BOOLEAN : LlmModelFileUploadSettled(ok)
    \/ LlmRemoveCustomModel

SpecLlm == Init /\ [][LlmNext]_vars

(***************************************************************************)
(* Properties of the selected-models store.                                *)
(***************************************************************************)
Running == phase = "running"

\* what the value under the storage key denotes: an absent key is the empty list
Denotes(item, list) ==
    IF TruthyItem(item)
    THEN ~JSONparseThrows(item) /\ SameList(JSONparse(item), list)
    ELSE list = <<>>

\* C1: addModel(m) while an entry with m's modelName is present changes neither
\* the list nor the stored value; and on an empty store add(m) then add(m2) with
\* the same name leaves the one-entry list holding m.
C1_DuplicateAddIsNoOp ==
    /\ [](  (Running /\ lastOp.op = "addModel" /\ SomeNamed(lastOp.before, lastOp.name))
            => /\ selectedModels = lastOp.before
               /\ localStorage.selectedModels = lastOp.storedBefore)
    /\ [][ \A m2 \in Models :
             (/\ lastOp.op = "addModel"
              /\ lastOp.before = <<>>
              /\ Get(m2, "modelName") = lastOp.name
              /\ AddModel(m2))
             => selectedModels' = <<lastOp.model>> ]_vars

C1_Witness ==
    /\ Running
    /\ lastOp.op = "addModel"
    /\ Len(lastOp.before) = 1
    /\ Get(lastOp.before[1], "modelName") = lastOp.name
    /\ lastOp.before[1] # lastOp.model
    /\ selectedModels = lastOp.before

\* C2: the list never holds two entries with the same modelName.
C2_UniqueNames ==
    \A i, j \in 1..Len(selectedModels) :
        i # j => Get(selectedModels[i], "modelName") # Get(selectedModels[j], "modelName")

C2_Witness ==
    /\ Running
    /\ lastOp.op = "addModel"
    /\ SomeNamed(lastOp.before, lastOp.name)
    /\ Len(selectedModels) >= 2

\* C3: removeModel(name) with no entry of that name changes neither the list nor
\* the stored value; otherwise it takes out the first entry of that name and
\* keeps every other entry, in the same order.
C3_RemoveFrame ==
    (Running /\ lastOp.op = "removeModel")
    => LET before == lastOp.before
           name == lastOp.name
       IN  IF \A i \in 1..Len(before) : Get(before[i], "modelName") # name
           THEN /\ selectedModels = before
                /\ localStorage.selectedModels = lastOp.storedBefore
           ELSE \E i \in 1..Len(before) :
                    /\ Get(before[i], "modelName") = name
                    /\ \A j \in 1..(i - 1) : Get(before[j], "modelName") # name
                    /\ Len(selectedModels) = Len(before) - 1
                    /\ \A k \in 1..(i - 1) : selectedModels[k] = before[k]
                    /\ \A k \in i..Len(selectedModels) : selectedModels[k] = before[k + 1]

C3_Witness ==
    /\ Running
    /\ lastOp.op = "removeModel"
    /\ Len(lastOp.before) = 3
    /\ Get(lastOp.before[2], "modelName") = lastOp.name
    /\ Len(selectedModels) = 2

\* C4: the entries stand in the order of the inserting addModel calls that put
\* them there, and a rejected duplicate add leaves the list as it was.
C4_InsertionOrder ==
    Running =>
        /\ NamesOf(selectedModels) = addLog
        /\ (lastOp.op = "addModel" /\ lastOp.name \in Range(NamesOf(lastOp.before)))
             => selectedModels = lastOp.before

C4_Witness ==
    /\ Running
    /\ lastOp.op = "addModel"
    /\ NamesOf(lastOp.before) = <<NameOf[2], NameOf[3]>>
    /\ NamesOf(selectedModels) = <<NameOf[2], NameOf[3], NameOf[1]>>

\* the last operation changed the collection (clearModels always counts)
Mutated ==
    \/ lastOp.op = "addModel" /\ ~SomeNamed(lastOp.before, lastOp.name)
    \/ lastOp.op = "removeModel" /\ SomeNamed(lastOp.before, lastOp.name)
    \/ lastOp.op = "clearModels"

\* C5: after an addModel that inserts, a removeModel that removes and a
\* clearModels, the stored value denotes the list in memory.
C5_StoredDenotesMemory ==
    (Running /\ Mutated) => Denotes(localStorage.selectedModels, selectedModels)

C5_Witness ==
    /\ Running
    /\ lastOp.op = "clearModels"
    /\ Len(lastOp.before) >= 2
    /\ lastOp.storedBefore.kind = "array"
    /\ localStorage.selectedModels = NoItem

\* C6: a reload brings back the list that was in memory before it, entry by
\* entry and in the same order.
C6_ReloadRoundTrip ==
    (Running /\ lastOp.op = "reload") => SameList(selectedModels, lastOp.before)

C6_Witness ==
    /\ Running
    /\ lastOp.op = "reload"
    /\ Len(lastOp.before) = 3
    /\ Len(selectedModels) = 3
    /\ \E i \in 1..3 : "fromLibrary" \notin DOMAIN selectedModels[i]

\* C7: whatever is stored under 'selectedModels', the load effect leaves the
\* application running with a list (the empty one for an unreadable payload).
C7_CorruptLoadDoesNotCrash ==
    phase # "crashed"

(***************************************************************************)
(* Properties of batch evaluation.                                         *)
(***************************************************************************)
HasError(result) == "error" \in DOMAIN result

AllZero(metrics) == \A f \in DOMAIN metrics : metrics[f] = 0

FailedFates == {"noDataset", "rejected", "noMetrics"}

\* C8: a finished run publishes one result per model of the selection it was
\* started on, in the selection's order, an error result exactly for the models
\* that failed; a suspended run has one result for every model before the one
\* it waits for, so a failure never ends the loop.
C8_BatchIsolatesFailures ==
    /\ lastRun.done =>
          /\ Len(lastRun.results) = Len(lastRun.models)
          /\ \A i \in 1..Len(lastRun.results) :
                /\ lastRun.results[i].modelName = Get(lastRun.models[i], "modelName")
                /\ HasError(lastRun.results[i]) <=> lastRun.fates[i] \in FailedFates
          /\ comparisonResults = lastRun.results
    /\ \A r \in RunIds :
          runs[r].pc = "awaiting" =>
              /\ Len(runs[r].results) = runs[r].i - 1
              /\ \A i \in 1..Len(runs[r].results) :
                    /\ runs[r].results[i].modelName = Get(runs[r].models[i], "modelName")
                    /\ HasError(runs[r].results[i]) <=> runs[r].fates[i] \in FailedFates

C8_Witness ==
    /\ lastRun.done
    /\ NamesOf(lastRun.models) = <<NameOf[1], NameOf[2], NameOf[3]>>
    /\ lastRun.fates = <<"metrics", "rejected", "metrics">>
    /\ ~HasError(comparisonResults[1])
    /\ HasError(comparisonResults[2])
    /\ ~HasError(comparisonResults[3])

\* every result the page holds or a call has collected so far
AllResults ==
    Range(comparisonResults) \cup Range(lastRun.results)
        \cup UNION {Range(runs[r].results) : r \in RunIds}

\* C9: a model whose request rejected or answered without metrics gets a result
\* with error set and all metrics zero, the run going on; and whatever result
\* has error set has all metrics zero.
C9_FailureIsZeroedErrorResult ==
    /\ \A result \in AllResults : HasError(result) => AllZero(result.metrics)
    /\ lastRun.done =>
          /\ Len(lastRun.fates) = Len(lastRun.models)
          /\ \A i \in 1..Len(lastRun.fates) :
                lastRun.fates[i] \in {"rejected", "noMetrics"} =>
                    /\ HasError(lastRun.results[i])
                    /\ lastRun.results[i].error # ""
                    /\ AllZero(lastRun.results[i].metrics)

C9_Witness ==
    /\ lastRun.done
    /\ \E i, j \in 1..Len(lastRun.fates) :
          /\ lastRun.fates[i] = "rejected"
          /\ lastRun.fates[j] = "noMetrics"
          /\ HasError(comparisonResults[i])
          /\ HasError(comparisonResults[j])

\* C10: every result of a library model carries isSimulated = true.
C10_LibraryResultsMarkedSimulated ==
    \A i \in 1..Len(comparisonResults) :
        Truthy(comparisonResults[i].fromLibrary)
            => Get(comparisonResults[i], "isSimulated") = JsTrue

\* o.k of the object a JSON text of an object denotes
Field(text, k) == Get(MkObj(text), k)

\* C11: a custom model evaluated while the File or the stored path is missing
\* gets the 'Please upload a dataset' error result, and no evaluate request is
\* ever sent for it: every request sent was built from a File and a path.
C11_NoDatasetFailsFast ==
    /\ \A q \in requests : Truthy(q.dataset) /\ Truthy(Field(q.body, "dataset_path"))
    /\ lastRun.done /\ (~Truthy(lastRun.dataset) \/ ~Truthy(lastRun.datasetPath))
          => \A i \in 1..Len(lastRun.models) :
                ~Truthy(Get(lastRun.models[i], "fromLibrary"))
                    => /\ lastRun.results[i].modelName = Get(lastRun.models[i], "modelName")
                       /\ Get(lastRun.results[i], "error")
                              = "Failed to evaluate model: " \o NoDatasetMessage
                       /\ \A q \in requests :
                              q.modelName # Get(lastRun.models[i], "modelName")

C11_Witness ==
    /\ lastRun.done
    /\ Truthy(lastRun.dataset)
    /\ ~Truthy(lastRun.datasetPath)
    /\ requests = {}
    /\ \E i, j \in 1..Len(lastRun.models) :
          /\ lastRun.fates[i] = "noDataset"
          /\ lastRun.fates[j] = "simulated"
          /\ HasError(lastRun.results[i])
          /\ ~HasError(lastRun.results[j])

\* C12: every evaluate request sent for a custom model carries a model path,
\* a dataset path and a non-empty target column.
C12_RequestsCarryAllThree ==
    \A q \in requests :
        /\ Truthy(Field(q.body, "model_path"))
        /\ Truthy(Field(q.body, "dataset_path"))
        /\ Truthy(Field(q.body, "target_column"))

\* C13: at no time are two calls of handleEvaluate started from the page in
\* flight together.
C13_OneRunInFlight == Cardinality({r \in RunIds : runs[r].pc = "awaiting"}) <= 1

\* C14: a failed handler call of ModelUploader that found the state of an
\* earlier successful dataset upload leaves the dataset path, the column
\* list, the selected target and the evaluation result as it found them.
C14_FailureKeepsState ==
    uploaderLast.failed /\ Len(uploaderLast.before.availableColumns) > 0
        => Obtained(uploader) = uploaderLast.before

\* the extension of a file name: from its last dot on, lower-cased; none ("")
\* for a name without a dot
ExtensionOf(name) == IF Len(name) = 1 THEN "" ELSE "." \o ToLowerCase(name[Len(name)])

\* C15: a dataset file whose extension is outside {.csv, .xlsx, .xls} is
\* rejected by every validator and answered with an error status by the
\* upload handler; a file whose extension is inside the set passes the
\* validation of every dataset-upload flow.
C15_DatasetExtensionSet ==
    probe.probed
        => IF ExtensionOf(probe.file.name) \in {".csv", ".xlsx", ".xls"}
           THEN /\ probe.datasetUploader
                /\ probe.validateDataset
                /\ probe.handlerStatus # 400
           ELSE /\ ~probe.datasetUploader
                /\ ~probe.validateDataset
                /\ probe.handlerStatus = 400

\* the requests answered with success
Succeeded == {q \in ReqIds : handlers[q].pc = "done" /\ handlers[q].status = 200}

\* C16: any two successful uploads of a server session return different ids
\* and end at different final paths.
C16_UniqueUploadIds ==
    \A q1, q2 \in Succeeded :
        q1 # q2 => /\ handlers[q1].id # handlers[q2].id
                   /\ handlers[q1].finalPath # handlers[q2].finalPath

\* C17: the file at the final path of an upload answered with success keeps
\* the bytes of that upload.
C17_CommittedFileImmutable ==
    \A q \in Succeeded : [path |-> handlers[q].finalPath, content |-> q] \in disk

\* C18: a model upload that validateModelFile rejects is answered with the
\* validation error and leaves no file of its request under uploads/.
C18_RejectedModelPersistsNothing ==
    \A q \in ReqIds :
        /\ handlers[q].pc = "done"
        /\ handlers[q].kind = "model"
        /\ handlers[q].status # 200
        /\ handlers[q].staged # ""
        => /\ handlers[q].error \in
                  {"Upload failed: Invalid file format. Only .pkl files are supported.",
                   "Upload failed: File size too large. Maximum size is 500MB."}
           /\ \A f \in disk : f.content # q

\* whether the file of the last handleModelUpload call has one of the five
\* extensions, taken from its last dot and lower-cased
HasModelExtension ==
    ExtensionOf(lastUpload.file.name) \in {".h5", ".pt", ".pth", ".onnx", ".pkl"}

WithinCeiling == lastUpload.file.size <= 1024 * 1024 * 1024

\* the file was accepted: the call went on to api.uploadModel
Accepted == lastUpload.verdict = "accepted"

ModelGiven ==
    chat.model.type = "string"
        /\ chat.model.text \in {"gpt-4", "gpt-3.5-turbo", "claude-2", "llama-2"}

C21_InferenceAnswers ==
    LET p == inference.python
        clean == p.code = "0" /\ p.stderr = "" /\ ParsesAsJSON(p.stdout)
    IN  /\ inference.responses = (IF inference.pc = "done" THEN 1 ELSE 0)
        /\ inference.status = 200 => p.state = "closed" /\ clean
        /\ p.state = "closed" =>
              /\ inference.pc = "done"
              /\ clean => inference.status = 200 /\ inference.body.kind = "json"
              /\ ~clean => inference.status = 500 /\ inference.body.kind = "error"

\* the process exited with code 0 and printed JSON, but wrote to stderr
C21_Witness ==
    /\ inference.python.state = "closed"
    /\ inference.python.code = "0"
    /\ inference.python.stderr # ""
    /\ ParsesAsJSON(inference.python.stdout)
    /\ inference.status = 500
    /\ inference.responses = 1

\* C22: the dispatch to the process is bounded in time: an accepted request
\* is never left without a step that answers it, also when the process
\* never exits or could not be started.
C22_AcceptedRequestCanBeAnswered ==
    inference.pc = "awaiting" =>
        ENABLED (\E code \in ExitCodes, stdout \in StdoutTexts, stderr \in StderrTexts :
                    ProcessClosed(code, stdout, stderr))

\* the path is one below the uploads directory
InUploads(segments) == Len(segments) > 1 /\ segments[1] = "uploads"

\* C30: the inference handler starts the process only for a POST request
\* that carries a modelId and an input and whose model file exists under
\* the uploads directory; a non-POST request is answered 405, one that
\* misses either member 400, one with an unknown modelId 404, each without
\* a process started.
C30_ProcessOnlyForUploadedModel ==
    LET h == inference
        modelFile == PathJoin(UPLOADS_DIR, PklFile(h.modelId))
    IN  /\ h.spawned > 0 =>
              /\ h.method = "POST"
              /\ ~Falsy(h.modelId) /\ ~Falsy(h.input)
              /\ \E f \in disk : f.path = h.python.modelPath
              /\ h.python.modelPath = PathString(modelFile)
              /\ InUploads(modelFile)
        /\ h.pc # "idle" /\ h.method # "POST" => h.status = 405 /\ h.spawned = 0
        /\ h.pc # "idle" /\ h.method = "POST" /\ (Falsy(h.modelId) \/ Falsy(h.input)) =>
              h.status = 400 /\ h.spawned = 0
        /\ h.status = 404 => h.spawned = 0

(***************************************************************************)
(* Properties of the dataset path.                                         *)
(***************************************************************************)
NonEmptyString(v) == v \notin {JsNull, Undefined, EmptyString}

\* C23: when handleDatasetUpload reports an upload as successful, the
\* in-memory dataset path and the 'datasetPath' key are both the non-empty
\* reference of the stored file that the endpoint returned.
C23_ReportedUploadStoresPath ==
    [][(successMessage # UploadedMessage /\ successMessage' = UploadedMessage) =>
            /\ NonEmptyString(datasetPath')
            /\ localStorage'.datasetPath = datasetPath']_vars

\* C26: after every operation of DatasetProvider the 'datasetPath' key is
\* present with value p exactly when the in-memory path is the non-empty
\* string p.
C26_PathAndKeyAgree ==
    phase = "running" =>
        IF localStorage.datasetPath = JsNull
        THEN ~NonEmptyString(datasetPath)
        ELSE datasetPath = localStorage.datasetPath

(***************************************************************************)
(* Properties of the order of the evaluate requests.                       *)
(***************************************************************************)
\* C24: a call of handleEvaluate sends its requests one after the other:
\* the request for a model is sent only when every model before it has its
\* result, requests sent earlier are for earlier models, no model gets two
\* requests, and the one request without a result is the one the call
\* waits for.
C24_SequentialDispatch ==
    LET run == runs["r1"]
    IN  /\ \A q \in requests : q.settled = q.index - 1
        /\ \A q1, q2 \in requests :
              /\ q1.index = q2.index => q1 = q2
              /\ q1.sent < q2.sent => q1.index < q2.index
        /\ run.pc = "awaiting" =>
              /\ Len(run.results) = run.i - 1
              /\ \A q \in requests : q.index <= run.i
              /\ \E q \in requests : q.index = run.i
        /\ lastRun.done =>
              \A q \in requests : q.index <= Len(lastRun.results)

\* the call waits for its second request, the first has its result
C24_Witness ==
    /\ runs["r1"].pc = "awaiting"
    /\ Cardinality(requests) = 2
    /\ Len(runs["r1"].results) >= 1
    /\ \E q \in requests : q.index = runs["r1"].i /\ q.sent = 1

(***************************************************************************)
(* Properties of the model upload of ModelSelectionPage.                   *)
(***************************************************************************)
\* C27: an uploaded model is added to the store only when its upload
\* succeeded: every entry a model-upload handler added has a non-empty
\* modelId, and a failed upload leaves the store as it was and sets the
\* page's error.
C27_OnlySucceededUploadsAdded ==
    /\ \A i \in 1..Len(selectedModels) :
          Get(selectedModels[i], "modelId") \notin {Undefined, JsNull, EmptyString}
    /\ selection.last = "failed" /\ selection.pc = "idle" => Truthy(selection.error)

(***************************************************************************)
(* Properties of the evaluation of library models.                         *)
(***************************************************************************)
\* the entry is one ModelLibraryPage.handleModelSelect hands to addModel
FromLibraryPage(model) == model = LibraryPageModel(Get(model, "modelName"))

\* C28: a model selected on the Model Library page is evaluated as a
\* library model: it gets simulated metrics whatever the dataset state, and
\* no evaluate request is sent for it.
C28_LibrarySelectionSimulated ==
    /\ lastRun.done =>
          \A i \in 1..Len(lastRun.models) :
              FromLibraryPage(lastRun.models[i]) => lastRun.fates[i] = "simulated"
    /\ \A r \in RunIds :
          runs[r].pc = "awaiting" => ~FromLibraryPage(runs[r].models[runs[r].i])

(***************************************************************************)
(* Properties of the chat page.                                            *)
(***************************************************************************)
\* C29: on the chat page a submit is ignored while a request is outstanding
\* or the input is blank, so at most one request is in flight; the message
\* list only grows by appending; an assistant message comes after the user
\* message that caused it; and when a request fails the list stays as it
\* is, the error is set and isLoading is false.
C29_ChatSubmit ==
    /\ [](/\ Cardinality(llm.submits) <= 1
          /\ \A i \in 1..Len(llm.messages) :
                /\ llm.messages[i].content # EmptyString
                /\ llm.messages[i].role = "assistant" =>
                      /\ llm.messages[i].cause < i
                      /\ llm.messages[llm.messages[i].cause].role = "user")
    /\ [][/\ Len(llm'.messages) >= Len(llm.messages)
          /\ SubSeq(llm'.messages, 1, Len(llm.messages)) = llm.messages
          /\ (llm'.submits # llm.submits /\ llm'.submits \subseteq llm.submits
                /\ llm'.messages = llm.messages) =>
                    Truthy(llm'.error) /\ ~llm'.isLoading]_vars

(***************************************************************************)
(* Properties of ModelUploader's loading flag.                             *)
(***************************************************************************)
\* C25: ModelUploader's loading flag is true whenever at least one of its
\* requests is outstanding, also when two overlap, and false once none is.
C25_LoadingWhileOutstanding ==
    uploader.loading <=> (\E c \in CallIds : uploaderCalls[c].kind # "none")

====
